---------------------------- MODULE Spec2Model ----------------------------
(***************************************************************************)
(* Resource lifecycle layer of Mongosync Insights                          *)
(*   migration/mongosync_insights/app_config.py                            *)
(*   migration/mongosync_insights/mongosync_insights.py                    *)
(*   migration/mongosync_insights/mongosync_plot_metadata.py               *)
(*   migration/mongosync_insights/file_decompressor.py                     *)
(*                                                                         *)
(* Spec      : InMemorySessionStore called from several request threads,   *)
(*             with a discrete wall clock.                                 *)
(* SpecCache : the lru_cache(maxsize=1) around get_mongo_client and the    *)
(*             request paths that use it (renderMetrics, gatherMetrics,    *)
(*             gatherPartitionsMetrics).                                   *)
(* SpecDetect: decompress_file of file_decompressor.py, for every file     *)
(*             name and MIME type of a bounded set, and the first next()   *)
(*             on the iterator it returns.                                 *)
(* SpecBzip2 : the generator decompress_bzip2 of file_decompressor.py, run *)
(*             to its end on every source of a bounded set of chunked      *)
(*             bzip2 streams.                                              *)
(***************************************************************************)
EXTENDS Integers, FiniteSets, Sequences, TLC

(***************************************************************************)
(* Bounds of the model.                                                    *)
(***************************************************************************)
MaxTime == 2        \* the clock runs 0..MaxTime
MaxHandles == 2     \* MongoClient objects that may be constructed
MaxParts == 3       \* dot-separated parts of an uploaded file's name
MaxChunks == 3      \* non-empty file_obj.read(8192) results of one source
MaxMembers == 3     \* entries of an archive
MaxCopies == 2      \* copies get_session may make

(***************************************************************************)
(* Program constants.  MI_SESSION_TIMEOUT is an environment setting        *)
(* (default 3600 s); the model runs with a timeout of one clock unit, so   *)
(* that age 1 is the inclusive boundary and age 2 is expired.              *)
(***************************************************************************)
SESSION_TIMEOUT == 1

\* Two request threads: enough for any two calls to overlap.
Threads == {1, 2}
\* The uuid4 values create_session draws, in the order it draws them.  The
\* store never looks into an id, so which values they are does not matter.
Ids == {1, 2}
NoId == 0                    \* a falsy session id: None or ""
\* Two distinct non-empty dicts handed to the store, which never looks into
\* a payload either.
Payloads == {1, 2}
EmptyDict == 0               \* the {} that get_session returns for "not found"
\* The dict objects of the process: the two payloads the callers build, which
\* are objects 1 and 2, and the copies get_session makes, at most MaxCopies.
Objects == 1..(Cardinality(Payloads) + MaxCopies)
\* The content of a dict, told by the value of its key 'connection_string':
\* a string, or Missing when the key is not there.
Contents == {"Missing", "u", "v"}
Unallocated == "Unallocated"
\* what the callers put into the payloads they build
Initially == <<"u", "v">>
Times == 0..MaxTime

VARIABLES
    now,        \* time.time()
    store,      \* InMemorySessionStore._store : id -> [data, created_at, last_accessed]
    nextId,     \* number of uuid4 values drawn so far (ids are 1..nextId)
    th,         \* th[t] : position and locals of request thread t inside the store
    last,       \* the store call that returned in the step just taken:
                \* [op, sid, ret, line], line being the return statement executed
    returned,   \* ids returned by completed create_session calls
    removed,    \* ids whose entry was removed (delete or expiry)
    dead,
    wrote,      \* the last update_session that returned True, while its id is neither deleted
                \* nor older than the timeout: <<>> or <<[sid, data, at]>>       \* ids that were expired at some instant, or removed
    cache,      \* lru_cache of get_mongo_client: <<>> or <<[key, handle]>>
    nextHandle, \* number of MongoClient objects constructed so far
    up,         \* up[cs] : the cluster behind connection string cs answers
    rq,         \* rq[t] : position and locals of request thread t in a route
    running,    \* the server process is alive
    failed,     \* handles on which an operation reported a connectivity failure, as long
                \* as the cache or a request holds them
    prev,       \* the last get_mongo_client call that completed alone: <<>> or <<[cs, handle]>>
    overlapped, \* a get_mongo_client call started while another was in flight
    probed,     \* handles that answered the ping of line 171 when they were constructed
    lastFail,   \* the string for which the last get_mongo_client call, run alone, raised
    lastOk,     \* the string of the last call that returned a client since the last cache_clear()
    cleared,    \* Cleared after clear_connection_cache(), then the thread whose call is the first after it
    filename,   \* decompress_file argument: None, or the name as its dot-separated parts
    mime_type,  \* decompress_file argument
    pos,        \* file_obj.tell()
    dpc,        \* "call": decompress_file not yet called, then "returned", "raised", "iterating"
    result,     \* what decompress_file returned or raised
    chunks,     \* the bzip2 source, as the 8 KiB chunks read(8192) returns: chunks[i] is
                \* [out, mark], what the decompressor makes of chunk i
    idx,        \* the next chunk read(8192) returns; past the end it returns b''
    eof,        \* decompressor.eof
    buffer,     \* decompress_bzip2: buffer
    yielded,    \* the items decompress_bzip2 has yielded so far
    bpc,        \* position in decompress_bzip2: "read", "split", "flush", "done", "raised"
    ar,         \* the archive decoder: [kind, members, mi, li, out, pc], with the entries
                \* of the archive in archive order, each [name, type, lines], the entry
                \* mi the loop is at, the next line li of the entry that is open, the
                \* lines yielded so far, and pc "open", "member", "line" or "done"
    dicts,      \* the dict objects: dicts.heap[o] is the content of object o, Unallocated
                \* before o exists; dicts.got are the objects get_session has returned
    submit      \* renderMetrics: submit.validated[t] is what validate_connection returned
                \* to the request of thread t; submit.made is the session created last,
                \* <<>> or <<[cs, ok, h]>>

storeVars == <<now, store, nextId, th, last, returned, removed, dead, wrote>>
cacheVars == <<cache, nextHandle, up, rq, running, failed, prev, overlapped,
              probed, lastFail, lastOk, cleared>>
detectVars == <<filename, mime_type, pos, dpc, result>>
bzip2Vars == <<chunks, idx, eof, buffer, yielded, bpc>>
archiveVars == <<ar>>
fileVars == <<detectVars, bzip2Vars, archiveVars>>
aliasVars == <<dicts>>
submitVars == <<submit>>
vars == <<now, store, nextId, th, last, returned, removed, dead, wrote,
          cache, nextHandle, up, rq, running, failed, prev, overlapped,
          probed, lastFail, lastOk, cleared,
          filename, mime_type, pos, dpc, result,
          chunks, idx, eof, buffer, yielded, bpc,
          ar, dicts, submit>>

(***************************************************************************)
(* InMemorySessionStore                                                    *)
(***************************************************************************)
Idle == [pc |-> "idle", op |-> "none", sid |-> NoId, data |-> EmptyDict, ct |-> 0]
None == <<>>                 \* filename = None
NoResult == [raised |-> FALSE, f |-> "none", arg |-> "none"]
NoReq == [pc |-> "idle", route |-> "none", cs |-> "none", h |-> 0, via |-> "none"]

\* a slip in the comparison: the boundary age counts as expired
IsExpiredAtBoundary(session, t) == t - session.last_accessed >= SESSION_TIMEOUT

\* line 294 / line 350: time.time() - session['last_accessed'] > self._timeout
IsExpired(session, t) == t - session.last_accessed > SESSION_TIMEOUT

Live(s, t) == {i \in DOMAIN s : ~IsExpired(s[i], t)}
ExpiredIn(s, t) == {i \in DOMAIN s : IsExpired(s[i], t)}

\* a slip in the removal: the entries are kept
WithoutNothing(s, S) == s

\* del self._store[sid] for every sid in S (lines 295, 339, 353)
Without(s, S) == [i \in DOMAIN s \ S |-> s[i]]

\* self._store[sid] = entry
With(s, sid, entry) == [i \in DOMAIN s \cup {sid} |-> IF i = sid THEN entry ELSE s[i]]

NoCall == [op |-> "none", sid |-> NoId, ret |-> 0, line |-> 0]
Done(op, sid, ret, line) == [op |-> op, sid |-> sid, ret |-> ret, line |-> line]

\* time.time() advances
Tick ==
    /\ now < MaxTime
    /\ now' = now + 1
    /\ dead' = dead \cup ExpiredIn(store, now + 1)
    /\ wrote' = IF wrote # <<>> /\ now + 1 - wrote[1].at > SESSION_TIMEOUT
              THEN <<>> ELSE wrote
    /\ last' = NoCall
    /\ UNCHANGED <<store, nextId, th, returned, removed>>
    /\ UNCHANGED <<cacheVars, fileVars, aliasVars, submitVars>>

\* create_session, line 265: session_id = str(uuid.uuid4())
create_session_call(t, data) ==
    /\ th[t].pc = "idle"
    /\ nextId < Cardinality(Ids)
    /\ nextId' = nextId + 1
    /\ th' = [th EXCEPT ![t] = [pc |-> "create_lock", op |-> "create_session",
                                sid |-> nextId + 1, data |-> data, ct |-> 0]]
    /\ last' = NoCall
    /\ UNCHANGED <<now, store, returned, removed, dead>>
    /\ UNCHANGED <<wrote, cacheVars, fileVars, aliasVars, submitVars>>

\* create_session, lines 266-271: the locked insertion
create_session_lock(t) ==
    /\ th[t].pc = "create_lock"
    /\ store' = With(store, th[t].sid,
                     [data |-> th[t].data, created_at |-> now, last_accessed |-> now])
    /\ th' = [th EXCEPT ![t].pc = "create_ret", ![t].data = EmptyDict]
    /\ last' = NoCall
    /\ UNCHANGED <<now, nextId, returned, removed, dead>>
    /\ UNCHANGED <<wrote, cacheVars, fileVars, aliasVars, submitVars>>

\* create_session, line 273: return session_id
create_session_return(t) ==
    /\ th[t].pc = "create_ret"
    /\ returned' = returned \cup {th[t].sid}
    /\ last' = Done("create_session", th[t].sid, th[t].sid, 273)
    /\ th' = [th EXCEPT ![t] = Idle]
    /\ UNCHANGED <<now, store, nextId, removed, dead>>
    /\ UNCHANGED <<wrote, cacheVars, fileVars, aliasVars, submitVars>>

\* get_session, lines 285-301
get_session(t, sid) ==
    /\ th[t].pc = "idle"
    /\ IF sid = NoId
       THEN /\ last' = Done("get_session", sid, EmptyDict, 286)
            /\ UNCHANGED <<store, removed, dead>>
       ELSE IF sid \notin DOMAIN store
       THEN /\ last' = Done("get_session", sid, EmptyDict, 291)
            /\ UNCHANGED <<store, removed, dead>>
       ELSE IF IsExpired(store[sid], now)
       THEN /\ store' = Without(store, {sid})
            /\ removed' = removed \cup {sid}
            /\ dead' = dead \cup {sid}
            /\ last' = Done("get_session", sid, EmptyDict, 297)
       ELSE /\ store' = [store EXCEPT ![sid].last_accessed = now]
            /\ last' = Done("get_session", sid, store[sid].data, 301)
            /\ UNCHANGED <<removed, dead>>
    /\ UNCHANGED <<now, nextId, th, returned>>
    /\ UNCHANGED <<wrote, cacheVars, fileVars, aliasVars, submitVars>>

\* a slip in update_session: an id that is not stored is inserted
update_session_upsert(t, sid, data) ==
    /\ th[t].pc = "idle"
    /\ IF sid = NoId
       THEN /\ last' = Done("update_session", sid, FALSE, 315)
            /\ UNCHANGED <<store, wrote>>
       ELSE /\ store' = With(store, sid,
                             [data |-> data, created_at |-> now, last_accessed |-> now])
            /\ last' = Done("update_session", sid, TRUE, 321)
            /\ wrote' = <<[sid |-> sid, data |-> data, at |-> now]>>
    /\ UNCHANGED <<now, nextId, th, returned, removed, dead>>
    /\ UNCHANGED <<cacheVars, fileVars, aliasVars, submitVars>>

\* a slip in update_session: the payload is replaced, last_accessed is not refreshed
update_session_without_touch(t, sid, data) ==
    /\ th[t].pc = "idle"
    /\ IF sid = NoId
       THEN /\ last' = Done("update_session", sid, FALSE, 315)
            /\ UNCHANGED <<store, wrote>>
       ELSE IF sid \in DOMAIN store
       THEN /\ store' = [store EXCEPT ![sid].data = data]
            /\ last' = Done("update_session", sid, TRUE, 321)
            /\ wrote' = <<[sid |-> sid, data |-> data, at |-> now]>>
       ELSE /\ last' = Done("update_session", sid, FALSE, 322)
            /\ UNCHANGED <<store, wrote>>
    /\ UNCHANGED <<now, nextId, th, returned, removed, dead>>
    /\ UNCHANGED <<cacheVars, fileVars, aliasVars, submitVars>>

\* update_session, lines 314-322
update_session(t, sid, data) ==
    /\ th[t].pc = "idle"
    /\ IF sid = NoId
       THEN /\ last' = Done("update_session", sid, FALSE, 315)
            /\ UNCHANGED <<store, wrote>>
       ELSE IF sid \in DOMAIN store
       THEN /\ store' = [store EXCEPT ![sid].data = data, ![sid].last_accessed = now]
            /\ last' = Done("update_session", sid, TRUE, 321)
            /\ wrote' = <<[sid |-> sid, data |-> data, at |-> now]>>
       ELSE /\ last' = Done("update_session", sid, FALSE, 322)
            /\ UNCHANGED <<store, wrote>>
    /\ UNCHANGED <<now, nextId, th, returned, removed, dead>>
    /\ UNCHANGED <<cacheVars, fileVars, aliasVars, submitVars>>

\* a slip in delete_session: an expired entry is not deleted
delete_session_live_only(t, sid) ==
    /\ th[t].pc = "idle"
    /\ IF sid = NoId
       THEN /\ last' = Done("delete_session", sid, FALSE, 335)
            /\ UNCHANGED <<store, removed, dead, wrote>>
       ELSE IF sid \in DOMAIN store /\ ~IsExpired(store[sid], now)
       THEN /\ store' = Without(store, {sid})
            /\ removed' = removed \cup {sid}
            /\ dead' = dead \cup {sid}
            /\ last' = Done("delete_session", sid, TRUE, 341)
            /\ wrote' = IF wrote # <<>> /\ wrote[1].sid = sid THEN <<>> ELSE wrote
       ELSE /\ last' = Done("delete_session", sid, FALSE, 342)
            /\ UNCHANGED <<store, removed, dead, wrote>>
    /\ UNCHANGED <<now, nextId, th, returned>>
    /\ UNCHANGED <<cacheVars, fileVars, aliasVars, submitVars>>

\* delete_session, lines 334-342
delete_session(t, sid) ==
    /\ th[t].pc = "idle"
    /\ IF sid = NoId
       THEN /\ last' = Done("delete_session", sid, FALSE, 335)
            /\ UNCHANGED <<store, removed, dead, wrote>>
       ELSE IF sid \in DOMAIN store
       THEN /\ store' = Without(store, {sid})
            /\ removed' = removed \cup {sid}
            /\ dead' = dead \cup {sid}
            /\ last' = Done("delete_session", sid, TRUE, 341)
            /\ wrote' = IF wrote # <<>> /\ wrote[1].sid = sid THEN <<>> ELSE wrote
       ELSE /\ last' = Done("delete_session", sid, FALSE, 342)
            /\ UNCHANGED <<store, removed, dead, wrote>>
    /\ UNCHANGED <<now, nextId, th, returned>>
    /\ UNCHANGED <<cacheVars, fileVars, aliasVars, submitVars>>

\* cleanup_expired, line 346: current_time = time.time(), read before the lock.
\* op is "cleanup_expired" for a direct call and "get_active_count" when the
\* call comes from get_active_count, line 359.
cleanup_expired_call(t, op) ==
    /\ th[t].pc = "idle"
    /\ th' = [th EXCEPT ![t] = [pc |-> "cleanup_lock", op |-> op,
                                sid |-> NoId, data |-> EmptyDict, ct |-> now]]
    /\ last' = NoCall
    /\ UNCHANGED <<now, store, nextId, returned, removed, dead>>
    /\ UNCHANGED <<wrote, cacheVars, fileVars, aliasVars, submitVars>>

\* a slip in the sweep: the age is taken from created_at
cleanup_expired_lock_by_created_at(t) ==
    /\ th[t].pc = "cleanup_lock"
    /\ LET expired == {i \in DOMAIN store :
                          th[t].ct - store[i].created_at > SESSION_TIMEOUT}
       IN  /\ store' = Without(store, expired)
           /\ removed' = removed \cup expired
           /\ dead' = dead \cup expired
    /\ IF th[t].op = "get_active_count"
       THEN /\ th' = [th EXCEPT ![t].pc = "count_lock", ![t].ct = 0]
            /\ last' = NoCall
       ELSE /\ th' = [th EXCEPT ![t] = Idle]
            /\ last' = Done("cleanup_expired", NoId, 0, 355)
    /\ UNCHANGED <<now, nextId, returned>>
    /\ UNCHANGED <<wrote, cacheVars, fileVars, aliasVars, submitVars>>

\* cleanup_expired, lines 347-355: the locked sweep
cleanup_expired_lock(t) ==
    /\ th[t].pc = "cleanup_lock"
    /\ LET expired == ExpiredIn(store, th[t].ct)
       IN  /\ store' = Without(store, expired)
           /\ removed' = removed \cup expired
           /\ dead' = dead \cup expired
    /\ IF th[t].op = "get_active_count"
       THEN /\ th' = [th EXCEPT ![t].pc = "count_lock", ![t].ct = 0]
            /\ last' = NoCall
       ELSE /\ th' = [th EXCEPT ![t] = Idle]
            /\ last' = Done("cleanup_expired", NoId, 0, 355)
    /\ UNCHANGED <<now, nextId, returned>>
    /\ UNCHANGED <<wrote, cacheVars, fileVars, aliasVars, submitVars>>

\* get_active_count, lines 360-361: the second locked region
get_active_count_lock(t) ==
    /\ th[t].pc = "count_lock"
    /\ last' = Done("get_active_count", NoId, Cardinality(DOMAIN store), 361)
    /\ th' = [th EXCEPT ![t] = Idle]
    /\ UNCHANGED <<now, store, nextId, returned, removed, dead>>
    /\ UNCHANGED <<wrote, cacheVars, fileVars, aliasVars, submitVars>>

InitServer ==
    /\ now = 0
    /\ store = <<>>
    /\ nextId = 0
    /\ th = [t \in Threads |-> Idle]
    /\ last = NoCall
    /\ returned = {}
    /\ removed = {}
    /\ dead = {}
    /\ wrote = <<>>
    /\ cache = <<>>
    /\ nextHandle = 0
    /\ up = [cs \in {"A", "B"} |-> TRUE]
    /\ rq = [t \in Threads |-> NoReq]
    /\ running = TRUE
    /\ failed = {}
    /\ prev = <<>>
    /\ overlapped = FALSE
    /\ probed = {}
    /\ lastFail = "none"
    /\ lastOk = "none"
    /\ cleared = 0

\* no upload is being decompressed
NoUpload ==
    /\ filename = None
    /\ mime_type = "none"
    /\ pos = 0
    /\ dpc = "none"
    /\ result = NoResult

\* no decompress_bzip2 generator exists
NoBzip2 ==
    /\ chunks = <<>>
    /\ idx = 1
    /\ eof = FALSE
    /\ buffer = <<>>
    /\ yielded = <<>>
    /\ bpc = "none"

\* no archive is being decoded
NoArchive == ar = None

\* the payloads are taken as values: no dict object is followed
NoDicts == dicts = None

\* no renderMetrics submission is followed to the session it creates
NoSubmit == submit = None

NoFlow == NoArchive /\ NoDicts /\ NoSubmit

Init == InitServer /\ NoUpload /\ NoBzip2 /\ NoFlow

Next ==
    \/ Tick
    \/ \E t \in Threads, d \in Payloads : create_session_call(t, d)
    \/ \E t \in Threads : create_session_lock(t)
    \/ \E t \in Threads : create_session_return(t)
    \/ \E t \in Threads, sid \in Ids \cup {NoId} : get_session(t, sid)
    \/ \E t \in Threads, sid \in Ids \cup {NoId}, d \in Payloads : update_session(t, sid, d)
    \/ \E t \in Threads, sid \in Ids \cup {NoId} : delete_session(t, sid)
    \/ \E t \in Threads, op \in {"cleanup_expired", "get_active_count"} :
          cleanup_expired_call(t, op)
    \/ \E t \in Threads : cleanup_expired_lock(t)
    \/ \E t \in Threads : get_active_count_lock(t)

Spec == Init /\ [][Next]_vars

(***************************************************************************)
(* Properties of InMemorySessionStore, stated for Spec.                     *)
(***************************************************************************)

\* C1: update_session(id, payload) replaces the payload and refreshes
\* last_accessed only if the session is live; on an entry that is still stored
\* but expired it returns False and changes nothing; it returns True exactly
\* when it found a live entry.
C1_UpdateOnlyIfLive ==
    [][last'.op = "update_session" =>
          /\ last'.ret = (last'.sid \in Live(store, now))
          /\ last'.sid \notin Live(store, now) => store' = store]_vars

\* C2: once a session has been expired at some instant, or has been removed,
\* no later call makes get_session(id) return a payload for it again.
C2_NoWayBack ==
    [][last'.op = "get_session" /\ last'.sid \in dead => last'.ret = EmptyDict]_vars

\* C3: get_session(id) on an id that is absent or expired returns the empty
\* mapping; an expired entry is removed in that same step and every other
\* entry is left as it was.
C3_GetAbsentOrExpired ==
    [][\A sid \in Ids \cup {NoId} :
          (/\ last'.op = "get_session"
           /\ last'.sid = sid
           /\ sid \in DOMAIN store => now - store[sid].last_accessed > SESSION_TIMEOUT)
          => /\ last'.ret = EmptyDict
             /\ DOMAIN store' = DOMAIN store \ {sid}
             /\ \A i \in DOMAIN store' : store'[i] = store[i]]_vars

\* C3 witness: a get_session call has just evicted an expired entry (return
\* at line 297) while another entry stayed in the store.
C3_Witness ==
    /\ last.op = "get_session"
    /\ last.line = 297
    /\ last.sid \in removed
    /\ last.sid \notin DOMAIN store
    /\ DOMAIN store # {}

\* C4: get_session(id) on a live session (age since last access <= timeout,
\* the boundary included) sets last_accessed to the current time and returns
\* the stored payload, whatever created_at is; so a session read at intervals
\* of at most the timeout stays live.
C4_GetLiveRefreshes ==
    [][\A sid \in Ids :
          (/\ last'.op = "get_session"
           /\ last'.sid = sid
           /\ sid \in DOMAIN store
           /\ now - store[sid].last_accessed <= SESSION_TIMEOUT)
          => /\ sid \in DOMAIN store'
             /\ store'[sid] = [store[sid] EXCEPT !.last_accessed = now']
             /\ last'.ret = store[sid].data
             /\ ~IsExpired(store'[sid], now')]_vars

\* C4 witness: a get_session call has just returned the payload of a session
\* that was created longer ago than the timeout.
C4_Witness ==
    /\ last.op = "get_session"
    /\ last.line = 301
    /\ last.sid \in DOMAIN store
    /\ last.ret = store[last.sid].data
    /\ now - store[last.sid].created_at > SESSION_TIMEOUT
    /\ store[last.sid].last_accessed = now

\* C5: the number get_active_count returns is the number of entries that are
\* live at the moment the count is taken.
C5_CountIsLive ==
    last.op = "get_active_count" => last.ret = Cardinality(Live(store, now))

\* C6: under any interleaving, every stored entry is a complete entry, no id
\* is stored that create_session did not draw or that was removed, and once
\* every call has returned the stored ids are among the ids returned by
\* create_session minus the ids removed by delete or expiry.
Quiescent == \A t \in Threads : th[t].pc = "idle"
C6_StoreWithinCreatesMinusRemovals ==
    /\ \A i \in DOMAIN store :
          /\ DOMAIN store[i] = {"data", "created_at", "last_accessed"}
          /\ store[i].data \in Payloads
          /\ store[i].created_at \in Times
          /\ store[i].last_accessed \in Times
          /\ store[i].created_at <= store[i].last_accessed
    /\ DOMAIN store \subseteq (1..nextId) \ removed
    /\ Quiescent => DOMAIN store \subseteq returned \ removed

\* C6 witness: all calls have returned, two creates completed, one session
\* was removed and the other is still stored.
C6_Witness ==
    /\ Quiescent
    /\ Cardinality(returned) = 2
    /\ removed # {}
    /\ DOMAIN store # {}

(***************************************************************************)
(* get_mongo_client behind functools.lru_cache(maxsize=1), and the request *)
(* paths that call it.                                                     *)
(***************************************************************************)
Strs == {"bad", "A", "B"}       \* "bad" is a malformed URI; A and B parse
Valid(cs) == cs # "bad"         \* parse_uri(connection_string), line 155
Routes == {"renderMetrics", "gatherMetrics", "gatherPartitionsMetrics"}
InCall == {"gmc_lookup", "gmc_body", "gmc_store"}

\* a cache that never answers from its slot
CacheHitNever(c, cs) == FALSE

\* lru_cache lookup, line 135: the key of the single slot is the argument
CacheHit(c, cs) == c # <<>> /\ c[1].key = cs

\* a single slot that keeps its first entry instead of replacing it
CachePutKeepsFirst(c, cs, h) == IF c # <<>> THEN c ELSE <<[key |-> cs, handle |-> h]>>

\* lru_cache insertion after the wrapped function returned, line 135: a key
\* that another call added meanwhile is left alone, otherwise the new entry
\* takes the single slot
CachePut(c, cs, h) == IF CacheHit(c, cs) THEN c ELSE <<[key |-> cs, handle |-> h]>>

\* where a route continues after get_mongo_client returned a client:
\* validate_connection line 218, gatherMetrics line 69, gatherPartitionsMetrics line 342
AfterClient(route) == IF route = "renderMetrics" THEN "vc_ping" ELSE "query"

\* where a route continues after get_mongo_client raised:
\* validate_connection line 220, gatherMetrics line 42, gatherPartitionsMetrics line 322
AfterRaise(route) == IF route = "renderMetrics" THEN "vc_except" ELSE "exit"

\* the call that completes now is remembered when it ran alone
Completed(cs, h) == IF overlapped THEN <<>> ELSE <<[cs |-> cs, handle |-> h]>>

\* the call that raises now, lines 176-184, is remembered when it ran alone
Raised(cs) == IF overlapped THEN "none" ELSE cs

\* value of cleared between clear_connection_cache() and the next call
Cleared == 3

\* the handle the cache holds, and the handles a call in progress holds
Cached == {cache[i].handle : i \in DOMAIN cache}
InUse == {rq[t].h : t \in Threads}

\* the cluster behind cs becomes unreachable or reachable again
SetUp(cs, b) ==
    /\ running
    /\ up[cs] # b
    /\ up' = [up EXCEPT ![cs] = b]
    /\ UNCHANGED <<cache, nextHandle, rq, running, failed, prev, overlapped>>
    /\ UNCHANGED <<probed, lastFail, lastOk, cleared>>
    /\ UNCHANGED <<storeVars, fileVars, aliasVars, submitVars>>

\* renderMetrics line 149 -> validate_connection line 216, or
\* getMetrics line 213 / getPartitionsData line 229 -> gather* -> get_database line 197:
\* the route calls get_mongo_client(cs)
Request(t, route, cs) ==
    /\ running
    /\ rq[t].pc = "idle"
    /\ rq' = [rq EXCEPT ![t] = [pc |-> "gmc_lookup", route |-> route, cs |-> cs,
                                h |-> 0, via |-> "none"]]
    /\ overlapped' = (\E u \in Threads : rq[u].pc \in InCall)
    /\ prev' = IF prev # <<>> /\ prev[1].cs = cs THEN prev ELSE <<>>
    /\ lastFail' = IF lastFail = cs /\ ~overlapped' THEN lastFail ELSE "none"
    /\ cleared' = IF cleared = Cleared THEN t ELSE cleared
    \* a failure of a handle that neither the cache nor a request holds any more
    \* is forgotten: such a handle is never served again
    /\ failed' = failed \cap (Cached \cup InUse)
    /\ UNCHANGED <<cache, nextHandle, up, running, probed, lastOk>>
    /\ UNCHANGED <<storeVars, fileVars, aliasVars, submitVars>>

\* lru_cache wrapper, line 135: look the argument up
gmc_lookup(t) ==
    /\ running
    /\ rq[t].pc = "gmc_lookup"
    /\ IF CacheHit(cache, rq[t].cs)
       THEN /\ rq' = [rq EXCEPT ![t].pc = AfterClient(rq[t].route),
                                ![t].h = cache[1].handle, ![t].via = "hit"]
            /\ prev' = Completed(rq[t].cs, cache[1].handle)
            /\ lastOk' = rq[t].cs
            /\ lastFail' = "none"
       ELSE /\ rq' = [rq EXCEPT ![t].pc = "gmc_body", ![t].via = "miss"]
            /\ UNCHANGED <<prev, lastOk, lastFail>>
    /\ cleared' = IF cleared = t THEN 0 ELSE cleared
    /\ UNCHANGED <<cache, nextHandle, up, running, failed, overlapped, probed>>
    /\ UNCHANGED <<storeVars, fileVars, aliasVars, submitVars>>

\* a memoisation that also keeps the client whose ping raised
gmc_body_caching_failure(t) ==
    /\ running
    /\ rq[t].pc = "gmc_body"
    /\ IF ~Valid(rq[t].cs)
       THEN /\ rq' = [rq EXCEPT ![t].pc = AfterRaise(rq[t].route)]
            /\ lastFail' = Raised(rq[t].cs)
            /\ UNCHANGED <<nextHandle, probed, cache>>
       ELSE /\ nextHandle < MaxHandles
            /\ nextHandle' = nextHandle + 1
            /\ IF up[rq[t].cs]
               THEN /\ rq' = [rq EXCEPT ![t].pc = "gmc_store", ![t].h = nextHandle + 1]
                    /\ probed' = probed \cup {nextHandle + 1}
                    /\ UNCHANGED <<lastFail, cache>>
               ELSE /\ rq' = [rq EXCEPT ![t].pc = AfterRaise(rq[t].route)]
                    /\ lastFail' = Raised(rq[t].cs)
                    /\ cache' = <<[key |-> rq[t].cs, handle |-> nextHandle + 1]>>
                    /\ UNCHANGED probed
    /\ UNCHANGED <<up, running, failed, prev, overlapped, lastOk, cleared>>
    /\ UNCHANGED <<storeVars, fileVars, aliasVars, submitVars>>

\* a body that returns the client without waiting for the answer to its ping
gmc_body_without_ping(t) ==
    /\ running
    /\ rq[t].pc = "gmc_body"
    /\ IF ~Valid(rq[t].cs)
       THEN /\ rq' = [rq EXCEPT ![t].pc = AfterRaise(rq[t].route)]
            /\ lastFail' = Raised(rq[t].cs)
            /\ UNCHANGED <<nextHandle, probed>>
       ELSE /\ nextHandle < MaxHandles
            /\ nextHandle' = nextHandle + 1
            /\ rq' = [rq EXCEPT ![t].pc = "gmc_store", ![t].h = nextHandle + 1]
            /\ probed' = IF up[rq[t].cs] THEN probed \cup {nextHandle + 1} ELSE probed
            /\ UNCHANGED lastFail
    /\ UNCHANGED <<cache, up, running, failed, prev, overlapped, lastOk, cleared>>
    /\ UNCHANGED <<storeVars, fileVars, aliasVars, submitVars>>

\* get_mongo_client body, lines 152-184: parse_uri, MongoClient(...), ping
gmc_body(t) ==
    /\ running
    /\ rq[t].pc = "gmc_body"
    /\ IF ~Valid(rq[t].cs)
       THEN /\ rq' = [rq EXCEPT ![t].pc = AfterRaise(rq[t].route)]
            /\ lastFail' = Raised(rq[t].cs)
            /\ UNCHANGED <<nextHandle, probed>>
       ELSE /\ nextHandle < MaxHandles
            /\ nextHandle' = nextHandle + 1
            /\ IF up[rq[t].cs]
               THEN /\ rq' = [rq EXCEPT ![t].pc = "gmc_store", ![t].h = nextHandle + 1]
                    /\ probed' = probed \cup {nextHandle + 1}
                    /\ UNCHANGED lastFail
               ELSE /\ rq' = [rq EXCEPT ![t].pc = AfterRaise(rq[t].route)]
                    /\ lastFail' = Raised(rq[t].cs)
                    /\ UNCHANGED probed
    /\ UNCHANGED <<cache, up, running, failed, prev, overlapped, lastOk, cleared>>
    /\ UNCHANGED <<storeVars, fileVars, aliasVars, submitVars>>

\* lru_cache wrapper, line 135: store the result and return it
gmc_store(t) ==
    /\ running
    /\ rq[t].pc = "gmc_store"
    /\ cache' = CachePut(cache, rq[t].cs, rq[t].h)
    /\ rq' = [rq EXCEPT ![t].pc = AfterClient(rq[t].route)]
    /\ prev' = Completed(rq[t].cs, rq[t].h)
    /\ lastOk' = rq[t].cs
    /\ lastFail' = "none"
    /\ UNCHANGED <<nextHandle, up, running, failed, overlapped, probed, cleared>>
    /\ UNCHANGED <<storeVars, fileVars, aliasVars, submitVars>>

\* validate_connection, lines 218-219: ping on the client it was given;
\* on success renderMetrics goes on to build the page (lines 170-197)
vc_ping(t) ==
    /\ running
    /\ rq[t].pc = "vc_ping"
    /\ IF up[rq[t].cs]
       THEN /\ rq' = [rq EXCEPT ![t] = NoReq]
            /\ UNCHANGED failed
       ELSE /\ rq' = [rq EXCEPT ![t].pc = "vc_except"]
            /\ failed' = failed \cup {rq[t].h}
    /\ UNCHANGED <<cache, nextHandle, up, running, prev, overlapped>>
    /\ UNCHANGED <<probed, lastFail, lastOk, cleared>>
    /\ UNCHANGED <<storeVars, fileVars, aliasVars, submitVars>>

\* validate_connection, lines 220-223: cache_clear() and re-raise
vc_except(t) ==
    /\ running
    /\ rq[t].pc = "vc_except"
    /\ cache' = <<>>
    /\ prev' = <<>>
    /\ rq' = [rq EXCEPT ![t].pc = "rm_except"]
    /\ lastOk' = "none"
    /\ UNCHANGED <<nextHandle, up, running, failed, overlapped, probed, lastFail, cleared>>
    /\ UNCHANGED <<storeVars, fileVars, aliasVars, submitVars>>

\* the handles on which close() has been called.  Neither the eviction of the
\* lru_cache (line 135), nor the except clauses of get_mongo_client (lines
\* 176-184), nor cache_clear() (lines 222, 230) calls it: they drop the
\* reference and nothing else.
closed == {}

\* clear_connection_cache, lines 225-231
clear_connection_cache == <<>>

\* a slip in renderMetrics: the except clause clears the cache and lets the
\* request go on to the creation of the session
rm_except_falls_through(t) ==
    /\ running
    /\ rq[t].pc = "rm_except"
    /\ cache' = clear_connection_cache
    /\ prev' = <<>>
    /\ rq' = [rq EXCEPT ![t].pc = "rm_session"]
    /\ lastOk' = "none"
    /\ cleared' = Cleared
    /\ UNCHANGED <<nextHandle, up, running, failed, overlapped, probed, lastFail>>
    /\ UNCHANGED <<storeVars, fileVars, aliasVars, submitVars>>

\* renderMetrics, lines 151-168: clear_connection_cache() and the error page
rm_except(t) ==
    /\ running
    /\ rq[t].pc = "rm_except"
    /\ cache' = clear_connection_cache
    /\ prev' = <<>>
    /\ rq' = [rq EXCEPT ![t] = NoReq]
    /\ lastOk' = "none"
    /\ cleared' = Cleared
    /\ UNCHANGED <<nextHandle, up, running, failed, overlapped, probed, lastFail>>
    /\ UNCHANGED <<storeVars, fileVars, aliasVars, submitVars>>

\* gatherMetrics lines 69-178 / gatherPartitionsMetrics lines 342-437: queries
\* on the database of the client; a PyMongoError they raise is caught nowhere
\* in the function and ends the request
query(t) ==
    /\ running
    /\ rq[t].pc = "query"
    /\ rq' = [rq EXCEPT ![t] = NoReq]
    /\ failed' = IF up[rq[t].cs] THEN failed ELSE failed \cup {rq[t].h}
    /\ UNCHANGED <<cache, nextHandle, up, running, prev, overlapped>>
    /\ UNCHANGED <<probed, lastFail, lastOk, cleared>>
    /\ UNCHANGED <<storeVars, fileVars, aliasVars, submitVars>>

\* gatherMetrics line 44 / gatherPartitionsMetrics line 324: exit(1) raises
\* SystemExit in the request thread.  What that does depends on the server
\* running the app: it ends the process (stops = TRUE), or only the thread
\* serving the request (stops = FALSE).
exit(t, stops) ==
    /\ running
    /\ rq[t].pc = "exit"
    /\ running' = ~stops
    /\ rq' = [rq EXCEPT ![t] = NoReq]
    /\ UNCHANGED <<cache, nextHandle, up, failed, prev, overlapped>>
    /\ UNCHANGED <<probed, lastFail, lastOk, cleared>>
    /\ UNCHANGED <<storeVars, fileVars, aliasVars, submitVars>>

NextCache ==
    \/ \E cs \in {"A", "B"}, b \in BOOLEAN : SetUp(cs, b)
    \/ \E t \in Threads, route \in Routes, cs \in Strs : Request(t, route, cs)
    \/ \E t \in Threads : gmc_lookup(t)
    \/ \E t \in Threads : gmc_body(t)
    \/ \E t \in Threads : gmc_store(t)
    \/ \E t \in Threads : vc_ping(t)
    \/ \E t \in Threads : vc_except(t)
    \/ \E t \in Threads : rm_except(t)
    \/ \E t \in Threads : query(t)
    \/ \E t \in Threads, stops \in BOOLEAN : exit(t, stops)

SpecCache == Init /\ [][NextCache]_vars

(***************************************************************************)
(* Properties of the connection cache, stated for SpecCache.               *)
(***************************************************************************)

\* C7: a get_mongo_client call that follows, with nothing in between (no
\* invalidation, no call for another string, no overlapping call), a
\* successful call for the same connection string returns the same handle
\* and constructs no new one.
C7_SequentialCallsShareHandle ==
    [][\A t \in Threads :
          (/\ rq[t].pc = "gmc_lookup"
           /\ rq'[t].pc # "gmc_lookup"
           /\ ~overlapped
           /\ prev # <<>>
           /\ prev[1].cs = rq[t].cs)
          => /\ rq'[t].pc = AfterClient(rq[t].route)
             /\ rq'[t].h = prev[1].handle
             /\ nextHandle' = nextHandle]_vars

\* C7 witness: a call that ran alone has been answered from the cache with
\* the only handle constructed so far.
C7_Witness ==
    \E t \in Threads :
        /\ rq[t].via = "hit"
        /\ rq[t].pc \in {"vc_ping", "query"}
        /\ ~overlapped
        /\ prev = <<[cs |-> rq[t].cs, handle |-> rq[t].h]>>
        /\ nextHandle = 1

\* C8: two callers that call get_mongo_client concurrently with the same
\* connection string never both construct a handle: at most one handle is
\* built and both receive it.
C8_OneHandlePerConcurrentMiss ==
    \A t \in Threads, u \in Threads :
        (/\ t # u
         /\ rq[t].pc = "gmc_store"
         /\ rq[u].pc = "gmc_store"
         /\ rq[t].cs = rq[u].cs)
        => rq[t].h = rq[u].h

\* C9: after an operation on a cached handle has reported a connectivity
\* failure, the cache is invalidated before the next get_mongo_client call:
\* no call is answered from the cache with a handle that has failed.  A
\* request that is still on its way through its own error handling (lines
\* 220-223 of validate_connection, 151-168 of renderMetrics) is given the
\* time to finish it.
Handling == {t \in Threads : rq[t].pc \in {"vc_except", "rm_except"}}
C9_FailedHandleNeverServed ==
    [][\A t \in Threads :
          (rq[t].pc = "gmc_lookup" /\ rq'[t].via = "hit" /\ Handling = {})
          => rq'[t].h \notin failed]_vars

\* C10: every failure of the connection cache is recoverable at the request
\* level: the process keeps running.
C10_ProcessKeepsRunning == running

\* C11: a get_mongo_client call whose URI does not parse, or whose client
\* cannot be constructed or does not answer the ping, raises to its caller
\* and leaves the cache as it was, without the attempted handle; the next
\* call for the same string (nothing in between, no overlapping call) goes
\* through the body again, and no call is ever answered from the cache with
\* a handle that did not answer its ping.
C11_FailureNotCached ==
    [][\A t \in Threads :
          /\ (/\ rq[t].pc = "gmc_body"
              /\ rq'[t].pc # "gmc_body"
              /\ (~Valid(rq[t].cs) \/ ~up[rq[t].cs]))
             => /\ rq'[t].pc = AfterRaise(rq[t].route)
                /\ rq'[t].h = 0
                /\ cache' = cache
          /\ (/\ rq[t].pc = "gmc_lookup"
              /\ rq'[t].pc # "gmc_lookup"
              /\ ~overlapped
              /\ lastFail = rq[t].cs)
             => rq'[t].pc = "gmc_body"
          /\ (rq[t].pc = "gmc_lookup" /\ rq'[t].via = "hit")
             => rq'[t].h \in probed]_vars

\* C11 witness: a client was constructed and did not answer its ping, the
\* call raised, and the next call for the same string is in the body again
\* with nothing in the cache.
C11_Witness ==
    \E t \in Threads :
        /\ rq[t].pc = "gmc_body"
        /\ Valid(rq[t].cs)
        /\ lastFail = rq[t].cs
        /\ ~overlapped
        /\ nextHandle = 1
        /\ probed = {}
        /\ cache = <<>>

\* C12: clear_connection_cache() leaves the cache empty whatever it held,
\* and the first get_mongo_client call that starts after it, for any
\* connection string, finds nothing in the cache and goes through the body
\* (constructs and pings a new client).
C12_ClearThenReestablish ==
    [][\A t \in Threads :
          /\ (rq[t].pc = "rm_except" /\ rq'[t].pc # "rm_except")
             => cache' = <<>>
          /\ (rq[t].pc = "gmc_lookup" /\ rq'[t].pc # "gmc_lookup" /\ cleared = t)
             => rq'[t].pc = "gmc_body"]_vars

\* C13: in every reachable state the handle in the cache, if there is one,
\* answered the ping of line 171 when it was constructed: whatever calls
\* succeeded or failed before, no handle that was not pinged, or whose ping
\* raised, is in the cache.
C13_CachedHandleWasProbed ==
    cache # <<>> => cache[1].handle \in probed

\* C13 witness: a client whose ping raised was constructed, and another
\* client is in the cache.
C13_Witness ==
    /\ cache # <<>>
    /\ cache[1].handle \in probed
    /\ \E h \in 1..nextHandle : h \notin probed

\* C14: in every reachable state the cache holds at most one entry, and the
\* key of that entry is the connection string of the most recent
\* get_mongo_client call that returned a client since the cache was last
\* cleared: a successful call for another string replaces the entry.
C14_SingleSlotHoldsLatest ==
    /\ Len(cache) <= 1
    /\ cache # <<>> => cache[1].key = lastOk

\* C14 witness: a call for one string stored client 1 and returned it to a
\* thread that still holds it, then a call for the other string stored
\* client 2 in its place.
C14_Witness ==
    /\ cache # <<>>
    /\ cache[1].handle = 2
    /\ cache[1].key = lastOk
    /\ \E t \in Threads :
          /\ rq[t].pc \in {"vc_ping", "query"}
          /\ rq[t].via = "miss"
          /\ rq[t].h = 1
          /\ rq[t].cs # cache[1].key

(***************************************************************************)
(* file_decompressor.py: decompress_file                                   *)
(*                                                                         *)
(* A file name is the sequence of its dot-separated parts: "x.tar.gz" is   *)
(* <<"x", "tar", "gz">>, ".gz" is <<"", "gz">>, "x." is <<"x", "">>, the   *)
(* empty string is <<"">>.  No part holds a dot or a path separator.  An   *)
(* extension is written the same way without its leading dot: ".tar.gz"   *)
(* is <<"tar", "gz">>, "" is <<>>.                                         *)
(***************************************************************************)
Parts == {"", "x", "tar", "TAR", "gz", "GZ", "bz2", "BZ2", "zip", "tgz"}
Names == UNION {[1..n -> Parts] : n \in 1..MaxParts}
\* the seven COMPRESSED_MIME_TYPES of app_config.py lines 39-45, the other
\* allowed type and one that is not allowed
MimeTypes == {"application/gzip", "application/x-gzip", "application/zip",
              "application/x-zip-compressed", "application/x-bzip2",
              "application/x-tar", "application/octet-stream",
              "application/x-ndjson", "text/plain"}
Positions == {0, 1}

\* str.lower() on one part
Lower(p) == CASE p = "TAR" -> "tar" [] p = "GZ" -> "gz" [] p = "BZ2" -> "bz2" [] OTHER -> p
\* str.lower() on a name
LowerName(name) == [i \in DOMAIN name |-> Lower(name[i])]

\* str.endswith('.' + ext): the parts of ext are the last parts of the name
\* and a dot stands before them
EndsWith(name, ext) ==
    /\ Len(name) > Len(ext)
    /\ SubSeq(name, Len(name) - Len(ext) + 1, Len(name)) = ext

\* os.path.splitext(name)[1]: from the last dot on, unless only dots stand
\* before it
splitext(name) ==
    IF Len(name) >= 2 /\ \E i \in 1..(Len(name) - 1) : name[i] # ""
    THEN <<name[Len(name)]>>
    ELSE <<>>

\* a comparison of the name as given, without lower()
get_file_extension_case_sensitive(name) ==
    IF EndsWith(name, <<"tar", "gz">>) THEN <<"tar", "gz">>
    ELSE IF EndsWith(name, <<"tar", "bz2">>) THEN <<"tar", "bz2">>
    ELSE LowerName(splitext(name))

\* get_file_extension, lines 121-141
get_file_extension(name) ==
    IF EndsWith(LowerName(name), <<"tar", "gz">>) THEN <<"tar", "gz">>
    ELSE IF EndsWith(LowerName(name), <<"tar", "bz2">>) THEN <<"tar", "bz2">>
    ELSE LowerName(splitext(name))

\* EXTENSION_TO_COMPRESSION.get(ext), app_config.py lines 48-55
EXTENSION_TO_COMPRESSION(ext) ==
    CASE ext = <<"gz">> -> "gzip"
      [] ext = <<"zip">> -> "zip"
      [] ext = <<"bz2">> -> "bzip2"
      [] ext = <<"tar", "gz">> -> "tar_gzip"
      [] ext = <<"tgz">> -> "tar_gzip"
      [] ext = <<"tar", "bz2">> -> "tar_bzip2"
      [] OTHER -> "None"

\* bool(filename): None and '' are falsy
Truthy(name) == name # None /\ name # <<"">>

\* the generator object a decompress_* function returns when called; none
\* of its body has run
Returns(f, arg) == [raised |-> FALSE, f |-> f, arg |-> arg]
\* raise ValueError(msg), lines 198 and 200
Raises(msg) == [raised |-> TRUE, f |-> "ValueError", arg |-> msg]
CannotDetermine == "Cannot determine compression type for octet-stream file"
Unsupported == "Unsupported compressed MIME type"

\* lines 164-165: ext is None or '' (both falsy) when there is no extension
ExtOf(name) == IF Truthy(name) THEN get_file_extension(name) ELSE <<>>
TypeOf(name) == IF ExtOf(name) # <<>> THEN EXTENSION_TO_COMPRESSION(ExtOf(name)) ELSE "None"

\* a dispatch that looks at the simple extension before the MIME type
DispatchSuffixFirst(mime, name) ==
    IF TypeOf(name) = "tar_gzip" THEN Returns("decompress_tar", "gz")
    ELSE IF TypeOf(name) = "tar_bzip2" THEN Returns("decompress_tar", "bz2")
    ELSE IF TypeOf(name) = "gzip" THEN Returns("decompress_gzip", "none")
    ELSE IF TypeOf(name) = "zip" THEN Returns("decompress_zip", "none")
    ELSE IF TypeOf(name) = "bzip2" THEN Returns("decompress_bzip2", "none")
    ELSE IF mime \in {"application/gzip", "application/x-gzip"}
         THEN Returns("decompress_gzip", "none")
    ELSE IF mime \in {"application/zip", "application/x-zip-compressed"}
         THEN Returns("decompress_zip", "none")
    ELSE IF mime = "application/x-bzip2" THEN Returns("decompress_bzip2", "none")
    ELSE IF mime = "application/x-tar" THEN Returns("decompress_tar", "gz")
    ELSE IF mime = "application/octet-stream" /\ Truthy(name)
         THEN Raises(CannotDetermine)
    ELSE Raises(Unsupported)

\* decompress_file, lines 164-200: what the call returns or raises
Dispatch(mime, name) ==
    IF TypeOf(name) = "tar_gzip" THEN Returns("decompress_tar", "gz")
    ELSE IF TypeOf(name) = "tar_bzip2" THEN Returns("decompress_tar", "bz2")
    ELSE IF mime \in {"application/gzip", "application/x-gzip"}
         THEN Returns("decompress_gzip", "none")
    ELSE IF mime \in {"application/zip", "application/x-zip-compressed"}
         THEN Returns("decompress_zip", "none")
    ELSE IF mime = "application/x-bzip2" THEN Returns("decompress_bzip2", "none")
    ELSE IF mime = "application/x-tar" THEN Returns("decompress_tar", "gz")
    ELSE IF mime = "application/octet-stream" /\ Truthy(name)
         THEN IF TypeOf(name) = "gzip" THEN Returns("decompress_gzip", "none")
              ELSE IF TypeOf(name) = "zip" THEN Returns("decompress_zip", "none")
              ELSE IF TypeOf(name) = "bzip2" THEN Returns("decompress_bzip2", "none")
              ELSE Raises(CannotDetermine)
    ELSE Raises(Unsupported)

\* a dispatcher that rewinds the file before it looks at its arguments
decompress_file_rewinding ==
    /\ dpc = "call"
    /\ pos' = 0
    /\ result' = Dispatch(mime_type, filename)
    /\ dpc' = IF Dispatch(mime_type, filename).raised THEN "raised" ELSE "returned"
    /\ UNCHANGED <<filename, mime_type>>
    /\ UNCHANGED <<storeVars, cacheVars, bzip2Vars, archiveVars, aliasVars, submitVars>>

\* the call decompress_file(file_obj, mime_type, filename): it is an ordinary
\* function, so it runs to its return or raise; the decompress_* functions it
\* calls are generator functions, whose call runs nothing
decompress_file ==
    /\ dpc = "call"
    /\ result' = Dispatch(mime_type, filename)
    /\ dpc' = IF Dispatch(mime_type, filename).raised THEN "raised" ELSE "returned"
    /\ UNCHANGED <<filename, mime_type, pos>>
    /\ UNCHANGED <<storeVars, cacheVars, bzip2Vars, archiveVars, aliasVars, submitVars>>

\* the first next() on the returned iterator: the generator body starts and
\* runs file_obj.seek(0), lines 26, 42, 74, 101
first_next ==
    /\ dpc = "returned"
    /\ pos' = 0
    /\ dpc' = "iterating"
    /\ UNCHANGED <<filename, mime_type, result>>
    /\ UNCHANGED <<storeVars, cacheVars, bzip2Vars, archiveVars, aliasVars, submitVars>>

\* every name and MIME type of the bounded sets, the file object where the
\* caller left it
InitDetect ==
    /\ InitServer
    /\ filename \in Names \cup {None}
    /\ mime_type \in MimeTypes
    /\ pos \in Positions
    /\ dpc = "call"
    /\ result = NoResult
    /\ NoBzip2
    /\ NoFlow

NextDetect ==
    \/ decompress_file
    \/ first_next

SpecDetect == InitDetect /\ [][NextDetect]_vars

(***************************************************************************)
(* Properties of decompress_file, stated for SpecDetect.                   *)
(***************************************************************************)
Called == dpc # "call"
TarGzip == Returns("decompress_tar", "gz")
TarBzip2 == Returns("decompress_tar", "bz2")
Gzip == Returns("decompress_gzip", "none")
Zip == Returns("decompress_zip", "none")
Bzip2 == Returns("decompress_bzip2", "none")
\* the name, compared without regard to case, ends in the suffix
HasSuffix(ext) == filename # None /\ EndsWith(LowerName(filename), ext)
CompoundTar == HasSuffix(<<"tar", "gz">>) \/ HasSuffix(<<"tar", "bz2">>)

\* C15: whatever the declared content type, a file name that ends in
\* .tar.gz (in any case) selects the tar+gzip decoder and one that ends in
\* .tar.bz2 the tar+bzip2 decoder.
C15_CompoundSuffixWins ==
    Called => /\ HasSuffix(<<"tar", "gz">>) => result = TarGzip
              /\ HasSuffix(<<"tar", "bz2">>) => result = TarBzip2

\* C15 witness: an upper-case .TAR.BZ2 name declared as zip was sent to the
\* tar+bzip2 decoder.
C15_Witness ==
    /\ dpc = "returned"
    /\ filename = <<"x", "TAR", "BZ2">>
    /\ mime_type = "application/zip"
    /\ result = TarBzip2

\* the decoder that the declared content type alone stands for
ByContentType ==
    CASE mime_type \in {"application/gzip", "application/x-gzip"} -> Gzip
      [] mime_type \in {"application/zip", "application/x-zip-compressed"} -> Zip
      [] mime_type = "application/x-bzip2" -> Bzip2
      [] mime_type = "application/x-tar" -> TarGzip
      [] OTHER -> NoResult
KnownArchiveType == ByContentType # NoResult

\* C16: when the file name has no compound tar suffix (.tar.gz, .tar.bz2)
\* and the declared content type is a known archive type, the decoder is the
\* one of the content type, whatever the simple suffix of the name is.
C16_ContentTypeDecides ==
    (Called /\ ~CompoundTar /\ KnownArchiveType) => result = ByContentType

\* C16 as amended: when the file name ends in none of .tar.gz, .tar.bz2 and
\* .tgz and the declared content type is a known archive type, the decoder
\* is the one of the content type, whatever else the name ends in.
C16_ContentTypeDecidesUnlessTarName ==
    (Called /\ ~CompoundTar /\ ~HasSuffix(<<"tgz">>) /\ KnownArchiveType)
    => result = ByContentType

\* C16 witness: x.zip declared as gzip was sent to the gzip decoder.
C16_Witness ==
    /\ dpc = "returned"
    /\ filename = <<"x", "zip">>
    /\ mime_type = "application/gzip"
    /\ result = Gzip

\* the simple suffix of the name, in lower case: what follows its last dot;
\* an absent name, a name without a dot and a name with nothing but dots
\* before its last dot have none
SimpleSuffix == IF filename = None THEN <<>> ELSE LowerName(splitext(filename))

\* C17: when the declared content type is application/octet-stream and the
\* file name has no compound tar suffix, the decoder follows the simple
\* suffix (.gz gzip, .zip zip, .bz2 bzip2), and in every other case, an
\* absent or suffix-less name included, the call fails with "cannot
\* determine compression type", not with "unsupported MIME type".
C17_OctetStreamBySuffix ==
    (Called /\ mime_type = "application/octet-stream" /\ ~CompoundTar)
    => result = CASE SimpleSuffix = <<"gz">> -> Gzip
                  [] SimpleSuffix = <<"zip">> -> Zip
                  [] SimpleSuffix = <<"bz2">> -> Bzip2
                  [] OTHER -> Raises(CannotDetermine)

Decoders == {TarGzip, TarBzip2, Gzip, Zip, Bzip2}
Errors == {Raises(CannotDetermine), Raises(Unsupported)}
GenericBinary == mime_type = "application/octet-stream"

\* C18: the call yields one decoder or one error for every file name and
\* content type; a content type that is neither a known archive type nor
\* application/octet-stream, with no compound tar suffix (.tar.gz,
\* .tar.bz2) on the name, fails with "unsupported MIME type"; and an error
\* is raised by the call itself, with the file object where it was.
C18_TotalAndEager ==
    [][/\ (dpc = "call" /\ dpc' # "call")
          => /\ result' \in Decoders \cup Errors
             /\ (~CompoundTar /\ ~KnownArchiveType /\ ~GenericBinary)
                => result' = Raises(Unsupported)
             /\ result'.raised => (dpc' = "raised" /\ pos' = pos)
       /\ dpc = "raised" => pos' = pos]_vars

\* C18 as amended: the same, for a name that ends in none of .tar.gz,
\* .tar.bz2 and .tgz.
C18_TotalAndEagerUnlessTarName ==
    [][/\ (dpc = "call" /\ dpc' # "call")
          => /\ result' \in Decoders \cup Errors
             /\ (~CompoundTar /\ ~HasSuffix(<<"tgz">>) /\ ~KnownArchiveType /\ ~GenericBinary)
                => result' = Raises(Unsupported)
             /\ result'.raised => (dpc' = "raised" /\ pos' = pos)
       /\ dpc = "raised" => pos' = pos]_vars

\* C18 witness: x.gz declared as text/plain was refused with "unsupported
\* MIME type" and the file object is still at position 1.
C18_Witness ==
    /\ dpc = "raised"
    /\ filename = <<"x", "gz">>
    /\ mime_type = "text/plain"
    /\ result = Raises(Unsupported)
    /\ pos = 1

(***************************************************************************)
(* file_decompressor.py: decompress_bzip2                                  *)
(*                                                                         *)
(* The source is the sequence of the non-empty chunks file_obj.read(8192)  *)
(* returns.  What matters of a chunk is what BZ2Decompressor.decompress    *)
(* makes of it: the bytes it returns (none, when the chunk ends before a   *)
(* block is complete), and whether the chunk is ordinary stream data,      *)
(* holds the end-of-stream marker, or is not valid bzip2 data.  Bytes are  *)
(* the line terminator and one other value.                                *)
(***************************************************************************)
NL == "LF"                   \* b'\n'
Outputs == {<<>>, <<"a">>, <<NL>>, <<"a", "a">>, <<"a", NL>>, <<NL, "a">>, <<NL, NL>>}
Marks == {"data", "eos", "bad"}
Chunk == [out : Outputs, mark : Marks]
\* after the end-of-stream marker a chunk holds bytes the decompressor does
\* not look at; an invalid chunk ends the run, so nothing follows it, and
\* it yields no bytes
Trailing == [out |-> <<>>, mark |-> "data"]
WellFormed(cs) ==
    \A i \in DOMAIN cs :
        /\ (\E j \in 1..(i - 1) : cs[j].mark = "eos") => cs[i] = Trailing
        /\ cs[i].mark = "bad" => (i = Len(cs) /\ cs[i].out = <<>>)
Sources == {cs \in UNION {[1..n -> Chunk] : n \in 0..MaxChunks} : WellFormed(cs)}

\* b'\n' in buffer
HasLine(buf) == \E i \in DOMAIN buf : buf[i] = NL
\* buffer.split(b'\n', 1): the index of the first terminator
FirstNL(buf) == CHOOSE i \in DOMAIN buf : buf[i] = NL /\ \A j \in 1..(i - 1) : buf[j] # NL
\* line + b'\n'
Line(buf) == SubSeq(buf, 1, FirstNL(buf))
Rest(buf) == SubSeq(buf, FirstNL(buf) + 1, Len(buf))

\* a flush that forgets the bytes after the last terminator
RemainderDropped(y, buf) == y

\* lines 60-61: if buffer: yield buffer
Remainder(y, buf) == IF buf # <<>> THEN Append(y, buf) ELSE y

\* lines 47-52 and 56-57: read a chunk and hand it to the decompressor
decompress_bzip2_read ==
    /\ bpc = "read"
    /\ IF idx > Len(chunks)
       THEN \* line 48: not chunk
            /\ bpc' = "flush"
            /\ UNCHANGED <<idx, eof, buffer>>
       ELSE IF eof
       THEN \* decompress() after the end of the stream raises EOFError, line 56
            /\ bpc' = "flush"
            /\ idx' = idx + 1
            /\ UNCHANGED <<eof, buffer>>
       ELSE IF chunks[idx].mark = "bad"
       THEN \* decompress() raises OSError, which no except clause catches
            /\ bpc' = "raised"
            /\ idx' = idx + 1
            /\ UNCHANGED <<eof, buffer>>
       ELSE /\ buffer' = buffer \o chunks[idx].out
            /\ eof' = (chunks[idx].mark = "eos")
            /\ idx' = idx + 1
            /\ bpc' = "split"
    /\ UNCHANGED <<chunks, yielded>>
    /\ UNCHANGED <<storeVars, cacheVars, detectVars, archiveVars, aliasVars, submitVars>>

\* lines 53-55: one turn of the inner while loop
decompress_bzip2_split ==
    /\ bpc = "split"
    /\ IF HasLine(buffer)
       THEN /\ yielded' = Append(yielded, Line(buffer))
            /\ buffer' = Rest(buffer)
            /\ UNCHANGED bpc
       ELSE /\ bpc' = "read"
            /\ UNCHANGED <<yielded, buffer>>
    /\ UNCHANGED <<chunks, idx, eof>>
    /\ UNCHANGED <<storeVars, cacheVars, detectVars, archiveVars, aliasVars, submitVars>>

\* lines 59-61: after the loop, then the generator returns
decompress_bzip2_flush ==
    /\ bpc = "flush"
    /\ yielded' = Remainder(yielded, buffer)
    /\ bpc' = "done"
    /\ UNCHANGED <<chunks, idx, eof, buffer>>
    /\ UNCHANGED <<storeVars, cacheVars, detectVars, archiveVars, aliasVars, submitVars>>

\* every source of the bounded set; the generator has run lines 42-44
InitBzip2 ==
    /\ InitServer
    /\ NoUpload
    /\ chunks \in Sources
    /\ idx = 1
    /\ eof = FALSE
    /\ buffer = <<>>
    /\ yielded = <<>>
    /\ bpc = "read"
    /\ NoFlow

NextBzip2 ==
    \/ decompress_bzip2_read
    \/ decompress_bzip2_split
    \/ decompress_bzip2_flush

SpecBzip2 == InitBzip2 /\ [][NextBzip2]_vars

(***************************************************************************)
(* Properties of decompress_bzip2, stated for SpecBzip2.                   *)
(***************************************************************************)
RECURSIVE Flatten(_)
Flatten(ss) == IF ss = <<>> THEN <<>> ELSE Head(ss) \o Flatten(Tail(ss))

\* the decompressed payload of the source: what the decompressor returns
\* for its chunks, up to the end of the stream
RECURSIVE PayloadOf(_)
PayloadOf(cs) ==
    IF cs = <<>> \/ Head(cs).mark = "bad" THEN <<>>
    ELSE IF Head(cs).mark = "eos" THEN Head(cs).out
    ELSE Head(cs).out \o PayloadOf(Tail(cs))
Payload == PayloadOf(chunks)
Terminators(item) == Cardinality({i \in DOMAIN item : item[i] = NL})
Terminated(item) == item # <<>> /\ item[Len(item)] = NL /\ Terminators(item) = 1

\* C19: when decompress_bzip2 has run to its end, wherever the chunk
\* boundaries fell in the payload: the yielded items put together are the
\* payload byte for byte; every item but the last is one line, ending in
\* its only terminator; the last is such a line or the non-empty
\* unterminated rest of the payload; no item is empty.
C19_LinesArePayload ==
    bpc = "done" =>
        /\ Flatten(yielded) = Payload
        /\ \A i \in 1..(Len(yielded) - 1) : Terminated(yielded[i])
        /\ yielded # <<>> =>
              \/ Terminated(yielded[Len(yielded)])
              \/ /\ yielded[Len(yielded)] # <<>>
                 /\ Terminators(yielded[Len(yielded)]) = 0

\* C19 witness: a line whose bytes came in three chunks, and an
\* unterminated rest, have been yielded as two items.
C19_Witness ==
    /\ bpc = "done"
    /\ Len(chunks) = 3
    /\ chunks[1].out = <<"a">>
    /\ chunks[2].out = <<"a">>
    /\ chunks[3].out = <<NL, "a">>
    /\ yielded = << <<"a", "a", NL>>, <<"a">> >>

\* a source that ends before the end-of-stream marker, after at least one
\* chunk of stream data
Truncated == chunks # <<>> /\ \A i \in DOMAIN chunks : chunks[i].mark = "data"

\* C20: when the source is exhausted before the decompressor has reached
\* the end-of-stream marker, the line sequence does not terminate normally:
\* it ends in an error.
C20_TruncatedStreamRaises ==
    Truncated => bpc # "done"

(***************************************************************************)
(* The sweep and the deletion                                              *)
(***************************************************************************)
\* the locked sweep of thread t runs in this step
Sweeps(t) == th[t].pc = "cleanup_lock" /\ th'[t].pc # "cleanup_lock"

\* C25: when the sweep of cleanup_expired has run, no entry whose age at the
\* time the sweep read (current_time - last_accessed) exceeds the timeout
\* remains, every entry that remains is unchanged, and every entry the sweep
\* removed is expired at the moment of its removal, whatever get_session and
\* update_session calls ran between the reading of the clock and the sweep.
C25_SweepRemovesExactlyExpired ==
    [][\A t \in Threads : Sweeps(t) =>
          /\ \A i \in DOMAIN store' :
                 ~(th[t].ct - store'[i].last_accessed > SESSION_TIMEOUT)
          /\ \A i \in DOMAIN store' : i \in DOMAIN store /\ store'[i] = store[i]
          /\ \A i \in DOMAIN store \ DOMAIN store' :
                 now - store[i].last_accessed > SESSION_TIMEOUT]_vars

\* a sweep has returned; it left an entry that had been refreshed and an
\* entry is gone
C25_Witness ==
    /\ last.op = "cleanup_expired"
    /\ \E i \in DOMAIN store : store[i].created_at < store[i].last_accessed
    /\ removed # {}

\* C26: delete_session(id) returns True exactly when id was stored, expired or
\* not; afterwards id is not stored and the other entries are as they were;
\* deleting an id that was deleted before returns False and leaves the store
\* unchanged.
C26_DeleteIsIdempotent ==
    [][last'.op = "delete_session" =>
          /\ last'.ret = (last'.sid \in DOMAIN store)
          /\ last'.sid \notin DOMAIN store'
          /\ store' = Without(store, {last'.sid})
          /\ (last'.sid \in removed => last'.ret = FALSE /\ store' = store)]_vars

\* a second delete_session of an id has returned False
C26_Witness ==
    /\ last.op = "delete_session"
    /\ last.line = 342
    /\ last.sid \in removed
    /\ store # <<>>

(***************************************************************************)
(* The handles get_mongo_client has built                                  *)
(***************************************************************************)
\* the handles constructed by MongoClient(...), line 158
Built == 1..nextHandle

\* C30: every handle built by get_mongo_client that is not in the cache, and
\* that no call in progress holds, has been closed; so at most one handle
\* is open when no call is in progress.
C30_DroppedHandlesAreClosed ==
    /\ \A h \in Built \ (Cached \cup InUse) : h \in closed
    /\ (\A t \in Threads : rq[t].pc = "idle") => Cardinality(Built \ closed) <= 1

(***************************************************************************)
(* Read your writes                                                        *)
(***************************************************************************)
\* C27: once update_session(id, p) has returned True, a get_session(id) that
\* follows returns p, provided no update_session or delete_session of id
\* came in between and no more than the timeout has passed since the update;
\* calls on other ids, get_session calls and sweeps may come in between.
C27_ReadYourWrites ==
    [][(/\ last'.op = "get_session"
        /\ wrote # <<>>
        /\ wrote[1].sid = last'.sid
        /\ now - wrote[1].at <= SESSION_TIMEOUT)
       => last'.ret = wrote[1].data]_vars

\* a get_session has returned the payload of an update_session made at an
\* earlier time, on an entry created with another payload
C27_Witness ==
    /\ last.op = "get_session"
    /\ wrote # <<>>
    /\ wrote[1].sid = last.sid
    /\ wrote[1].at < now
    /\ last.ret = wrote[1].data
    /\ last.sid \in DOMAIN store
    /\ store[last.sid].created_at < wrote[1].at

(***************************************************************************)
(* The running application: the session store as the routes use it.       *)
(* renderMetrics creates a session (mongosync_insights.py line 175);       *)
(* getMetrics, getPartitionsData and getEndpointData look up the id of the *)
(* cookie (lines 206, 222, 238).  No route calls update_session,           *)
(* delete_session, cleanup_expired or get_active_count, and no timer does. *)
(***************************************************************************)
\* a route looks up the id of the cookie the client sent, if any
Lookup == \E t \in Threads, sid \in Ids \cup {NoId} : get_session(t, sid)

\* renderMetrics, line 175: session_store.create_session(session_data)
Creation ==
    \/ \E t \in Threads, d \in Payloads : create_session_call(t, d)
    \/ \E t \in Threads : create_session_lock(t)
    \/ \E t \in Threads : create_session_return(t)

NextApp ==
    \/ Tick
    \/ Creation
    \/ Lookup

\* time passes, a call that has started completes, and requests keep arriving
FairApp ==
    /\ WF_vars(Tick)
    /\ WF_vars(Creation)
    /\ WF_vars(Lookup)

SpecApp == Init /\ [][NextApp]_vars /\ FairApp

\* C28: in the running application, with requests arriving for ever, a stored
\* session whose timeout has elapsed is eventually removed from the store.
C28_ExpiredSessionIsRemoved ==
    \A sid \in Ids :
        (sid \in DOMAIN store /\ IsExpired(store[sid], now)) ~> (sid \notin DOMAIN store)

(***************************************************************************)
(* decompress_zip and decompress_tar (file_decompressor.py)                *)
(*                                                                         *)
(* An archive is the sequence of its entries, in archive order.  An entry  *)
(* has a name, a type and the lines of its data.  A zip directory entry is *)
(* an entry whose name ends with "/"; a symbolic link is stored in a zip   *)
(* as an entry whose data is the path it points to, and in a tar as a      *)
(* member without data.  Two entries of one archive may bear the same      *)
(* name: both formats allow it (an archive that was appended to).          *)
(***************************************************************************)
ArchiveKinds == {"zip", "tar.gz", "tar.bz2"}
FileNames == {"a", "b"}
Texts == {<<>>, <<"x">>, <<"y", "z">>}
Entries ==
    {[name |-> "d/", type |-> "dir", lines |-> <<>>],
     [name |-> "l", type |-> "link", lines |-> <<"t">>]}
    \cup {[name |-> n, type |-> "file", lines |-> c] : n \in FileNames, c \in Texts}
Archives == UNION {[1..n -> Entries] : n \in 0..MaxMembers}

\* line 81: filename.endswith('/')
EndsWithSlash(name) == name \in {"d/"}

\* lines 111 and 106: member.isfile()
isfile(member) == member.type = "file"

\* line 85: zf.open(filename) looks the name up in the directory of the
\* archive, where the last entry of that name has replaced the earlier ones
zf_open(ms, name) ==
    LET named == {i \in DOMAIN ms : ms[i].name = name}
        i == CHOOSE i \in named : \A j \in named : j <= i
    IN  ms[i].lines

\* line 115: tf.extractfile(member) reads the data of that member
extractfile(ms, i) == ms[i].lines

\* the inner file the loop of lines 86-87 / 117-118 reads
inner_file == IF ar.kind = "zip" THEN zf_open(ar.members, ar.members[ar.mi].name)
              ELSE extractfile(ar.members, ar.mi)

\* lines 74-77 / 101-107: seek(0), open the archive, list its entries
archive_open ==
    /\ ar.pc = "open"
    /\ ar' = [ar EXCEPT !.pc = "member", !.mi = 1]
    /\ UNCHANGED <<storeVars, cacheVars, detectVars, bzip2Vars, aliasVars, submitVars>>

\* decompress_zip, lines 79-85: the next name of namelist()
decompress_zip_member ==
    /\ ar.kind = "zip"
    /\ ar.pc = "member"
    /\ IF ar.mi > Len(ar.members)
       THEN ar' = [ar EXCEPT !.pc = "done"]
       ELSE IF EndsWithSlash(ar.members[ar.mi].name)
       THEN ar' = [ar EXCEPT !.mi = ar.mi + 1]
       ELSE ar' = [ar EXCEPT !.pc = "line", !.li = 1]
    /\ UNCHANGED <<storeVars, cacheVars, detectVars, bzip2Vars, aliasVars, submitVars>>

\* decompress_tar, lines 109-116: the next member of getmembers()
decompress_tar_member ==
    /\ ar.kind \in {"tar.gz", "tar.bz2"}
    /\ ar.pc = "member"
    /\ IF ar.mi > Len(ar.members)
       THEN ar' = [ar EXCEPT !.pc = "done"]
       ELSE IF ~isfile(ar.members[ar.mi])
       THEN ar' = [ar EXCEPT !.mi = ar.mi + 1]
       ELSE ar' = [ar EXCEPT !.pc = "line", !.li = 1]
    /\ UNCHANGED <<storeVars, cacheVars, detectVars, bzip2Vars, aliasVars, submitVars>>

\* lines 86-87 / 117-118: for line in inner_file: yield line
yield_line ==
    /\ ar.pc = "line"
    /\ IF ar.li > Len(inner_file)
       THEN ar' = [ar EXCEPT !.pc = "member", !.mi = ar.mi + 1, !.li = 0]
       ELSE ar' = [ar EXCEPT !.out = Append(ar.out, inner_file[ar.li]), !.li = ar.li + 1]
    /\ UNCHANGED <<storeVars, cacheVars, detectVars, bzip2Vars, aliasVars, submitVars>>

InitArchive ==
    /\ InitServer
    /\ NoUpload
    /\ NoBzip2
    /\ NoDicts
    /\ NoSubmit
    /\ \E k \in ArchiveKinds, ms \in Archives :
           ar = [kind |-> k, members |-> ms, mi |-> 0, li |-> 0, out |-> <<>>, pc |-> "open"]

NextArchive ==
    \/ archive_open
    \/ decompress_zip_member
    \/ decompress_tar_member
    \/ yield_line

SpecArchive == InitArchive /\ [][NextArchive]_vars

RECURSIVE LinesOfFiles(_)
\* the lines of the regular file entries of ms, entry after entry
LinesOfFiles(ms) ==
    IF ms = <<>> THEN <<>>
    ELSE (IF ms[1].type = "file" THEN ms[1].lines ELSE <<>>) \o LinesOfFiles(Tail(ms))

\* C21: a container decoder (zip, tar+gzip, tar+bzip2) that has run to its
\* end has yielded the lines of each regular file entry, entry after entry
\* in archive order, each entry's lines together and complete, nothing for a
\* directory or another non-regular entry, nothing in between; for an
\* archive without file entries it has yielded nothing.
C21_LinesOfEachFileInOrder ==
    ar.pc = "done" => ar.out = LinesOfFiles(ar.members)

(***************************************************************************)
(* The payloads as objects.  create_session and update_session store the   *)
(* dict they are given (app_config.py lines 268 and 320): store[id].data   *)
(* is the object, 1 or 2, and dicts.heap tells what each object holds.     *)
(* get_session returns session['data'].copy() (line 301), a new object.    *)
(* A caller may change a dict it built or a dict get_session gave it.      *)
(***************************************************************************)
\* the object a dict that is created now becomes
NewObject == Cardinality({o \in Objects : dicts.heap[o] # Unallocated}) + 1

\* what a get_session that finds the entry returns: a new dict c with the
\* content of the stored one
copy(h, o, c) == [h EXCEPT ![c] = h[o]]

\* a slip in get_session: session['data'] itself is returned
get_session_reference(t, sid) ==
    /\ th[t].pc = "idle"
    /\ IF sid = NoId
       THEN /\ last' = Done("get_session", sid, EmptyDict, 286)
            /\ UNCHANGED <<store, removed, dead, dicts>>
       ELSE IF sid \notin DOMAIN store
       THEN /\ last' = Done("get_session", sid, EmptyDict, 291)
            /\ UNCHANGED <<store, removed, dead, dicts>>
       ELSE IF IsExpired(store[sid], now)
       THEN /\ store' = Without(store, {sid})
            /\ removed' = removed \cup {sid}
            /\ dead' = dead \cup {sid}
            /\ last' = Done("get_session", sid, EmptyDict, 297)
            /\ UNCHANGED dicts
       ELSE /\ store' = [store EXCEPT ![sid].last_accessed = now]
            /\ dicts' = [dicts EXCEPT !.got = dicts.got \cup {store[sid].data}]
            /\ last' = Done("get_session", sid, store[sid].data, 301)
            /\ UNCHANGED <<removed, dead>>
    /\ UNCHANGED <<now, nextId, th, returned, wrote>>
    /\ UNCHANGED <<cacheVars, fileVars, submitVars>>

\* get_session, lines 285-301, with the object it returns
get_session_copy(t, sid) ==
    /\ th[t].pc = "idle"
    /\ IF sid = NoId
       THEN /\ last' = Done("get_session", sid, EmptyDict, 286)
            /\ UNCHANGED <<store, removed, dead, dicts>>
       ELSE IF sid \notin DOMAIN store
       THEN /\ last' = Done("get_session", sid, EmptyDict, 291)
            /\ UNCHANGED <<store, removed, dead, dicts>>
       ELSE IF IsExpired(store[sid], now)
       THEN /\ store' = Without(store, {sid})
            /\ removed' = removed \cup {sid}
            /\ dead' = dead \cup {sid}
            /\ last' = Done("get_session", sid, EmptyDict, 297)
            /\ UNCHANGED dicts
       ELSE /\ NewObject \in Objects
            /\ store' = [store EXCEPT ![sid].last_accessed = now]
            /\ dicts' = [heap |-> copy(dicts.heap, store[sid].data, NewObject),
                         got |-> dicts.got \cup {NewObject}]
            /\ last' = Done("get_session", sid, NewObject, 301)
            /\ UNCHANGED <<removed, dead>>
    /\ UNCHANGED <<now, nextId, th, returned, wrote>>
    /\ UNCHANGED <<cacheVars, fileVars, submitVars>>

\* a caller adds, removes or rebinds the key of dict o, one it built (and may
\* have handed to create_session or update_session) or one get_session
\* returned to it
setitem(o, v) ==
    /\ o \in Payloads \cup dicts.got
    /\ dicts.heap[o] # v
    /\ dicts' = [dicts EXCEPT !.heap[o] = v]
    /\ last' = Done("setitem", NoId, o, 0)
    /\ UNCHANGED <<now, store, nextId, th, returned, removed, dead, wrote>>
    /\ UNCHANGED <<cacheVars, fileVars, submitVars>>

\* the store calls of the request threads and the changes the callers make to
\* their dicts, within one reading of the clock
NextAlias ==
    \/ \E t \in Threads, d \in Payloads : create_session_call(t, d)
    \/ \E t \in Threads : create_session_lock(t)
    \/ \E t \in Threads : create_session_return(t)
    \/ \E t \in Threads, sid \in Ids \cup {NoId} : get_session_copy(t, sid)
    \/ \E t \in Threads, sid \in Ids \cup {NoId}, d \in Payloads : update_session(t, sid, d)
    \/ \E o \in Objects, v \in Contents : setitem(o, v)

\* the callers have built their two dicts; get_session has returned nothing yet
InitAlias ==
    /\ InitServer
    /\ NoUpload
    /\ NoBzip2
    /\ NoArchive
    /\ NoSubmit
    /\ dicts = [heap |-> [o \in Objects |-> IF o \in Payloads THEN Initially[o]
                                          ELSE Unallocated],
                got |-> {}]

SpecAlias == InitAlias /\ [][NextAlias]_vars

\* what get_session(id) returns for each stored id, as long as the entry is live
Held == [i \in DOMAIN store |-> dicts.heap[store[i].data]]

\* C22: the payload the store holds changes only through the calls of the
\* store: when every create_session and update_session call has returned and
\* a caller changes a dict it passed to one of them, what get_session returns
\* for any id stays as it was.
C22_PassedDictIsNotShared ==
    [][(/\ last'.op = "setitem"
        /\ last'.ret \in Payloads
        /\ \A t \in Threads : th[t].pc = "idle")
       => Held' = Held]_vars

\* C23: get_session returns a copy: when a caller adds, removes or rebinds a
\* key of a dict get_session returned to it, what get_session returns for any
\* id stays as it was.  (The dicts handed to the store are the ones the callers
\* built, never one get_session returned.)
C23_ReturnedDictIsACopy ==
    [][(last'.op = "setitem" /\ last'.ret \in dicts.got) => Held' = Held]_vars

\* a caller has changed the dict get_session returned for an id that is still
\* stored, and the stored payload differs from it now
C23_Witness ==
    /\ last.op = "setitem"
    /\ last.ret \in dicts.got
    /\ \E i \in DOMAIN store :
           /\ Held[i] # dicts.heap[last.ret]
           /\ Held[i] = Initially[store[i].data]

(***************************************************************************)
(* renderMetrics with the session it creates (mongosync_insights.py lines  *)
(* 145-197): validate_connection, then on an exception the error page, and *)
(* otherwise create_session and the page with the session cookie.          *)
(***************************************************************************)
\* validate_connection, lines 218-219: the ping on the client it was given.
\* When the cluster answers, ok tells whether the reply carries ok = 1, and
\* validate_connection returns that to renderMetrics line 149; when it does
\* not answer the ping raises.
validate_connection_ping(t, ok) ==
    /\ running
    /\ rq[t].pc = "vc_ping"
    /\ IF up[rq[t].cs]
       THEN /\ rq' = [rq EXCEPT ![t].pc = "rm_session"]
            /\ submit' = [submit EXCEPT !.validated[t] = IF ok THEN "True" ELSE "False"]
            /\ UNCHANGED failed
       ELSE /\ rq' = [rq EXCEPT ![t].pc = "vc_except"]
            /\ failed' = failed \cup {rq[t].h}
            /\ UNCHANGED submit
    /\ UNCHANGED <<cache, nextHandle, up, running, prev, overlapped>>
    /\ UNCHANGED <<probed, lastFail, lastOk, cleared>>
    /\ UNCHANGED <<storeVars, fileVars, aliasVars>>

\* renderMetrics, lines 170-197: the value validate_connection returned was
\* dropped at line 149; the session is created with the connection string
\* and its id is set in the cookie of the response
rm_session(t) ==
    /\ running
    /\ rq[t].pc = "rm_session"
    /\ submit' = [validated |-> [submit.validated EXCEPT ![t] = "none"],
                  made |-> <<[cs |-> rq[t].cs, ok |-> submit.validated[t], h |-> rq[t].h]>>]
    /\ rq' = [rq EXCEPT ![t] = NoReq]
    /\ UNCHANGED <<cache, nextHandle, up, running, failed, prev, overlapped>>
    /\ UNCHANGED <<probed, lastFail, lastOk, cleared>>
    /\ UNCHANGED <<storeVars, fileVars, aliasVars>>

NextSubmit ==
    \/ \E cs \in {"A", "B"}, b \in BOOLEAN : SetUp(cs, b)
    \/ \E t \in Threads, cs \in Strs : Request(t, "renderMetrics", cs)
    \/ \E t \in Threads : gmc_lookup(t)
    \/ \E t \in Threads : gmc_body(t)
    \/ \E t \in Threads : gmc_store(t)
    \/ \E t \in Threads, ok \in BOOLEAN : validate_connection_ping(t, ok)
    \/ \E t \in Threads : vc_except(t)
    \/ \E t \in Threads : rm_except(t)
    \/ \E t \in Threads : rm_session(t)

InitSubmit ==
    /\ InitServer
    /\ NoUpload
    /\ NoBzip2
    /\ NoArchive
    /\ NoDicts
    /\ submit = [validated |-> [t \in Threads |-> "none"], made |-> <<>>]

SpecSubmit == InitSubmit /\ [][NextSubmit]_vars

\* the session renderMetrics created last
made == submit.made

\* the request of thread t ends with the error page in this step
ErrorPage(t) == rq[t].pc = "rm_except" /\ rq'[t].pc # "rm_except"

\* C24: in renderMetrics a session is created only by a request whose
\* validate_connection call returned; a request whose validation raised ends
\* without creating a session (so with no session id to put in a cookie) and
\* with the connection cache empty.
C24_SessionOnlyAfterValidation ==
    [][/\ made' # <<>> => made'[1].ok # "none"
       /\ \A t \in Threads : ErrorPage(t) =>
              /\ made' = made
              /\ cache' = <<>>
              /\ rq'[t] = NoReq]_vars

\* after a submission whose validation raised on a handle, a later submission
\* has built a new handle and created a session
C24_Witness ==
    /\ made # <<>>
    /\ made[1].ok = "True"
    /\ \E f \in failed : f < made[1].h

\* C29: renderMetrics creates a session with a connection string only if the
\* ping of validate_connection answered ok = 1: no session is created by a
\* request to which validate_connection returned False.
C29_SessionOnlyIfPingOk ==
    made # <<>> => made[1].ok = "True"

=============================================================================
